---------------------------- MODULE Spec2Model ----------------------------
(***************************************************************************)
(* AgentScore: the workflow graph-and-cost analysis engine.                *)
(*                                                                         *)
(*   backend/pricing.py    calculate_cost, normalize_model_name            *)
(*   backend/scoring.py    match_call_id_to_event, filter_findings,        *)
(*                         calculate_efficiency_score (cost based),        *)
(*                         compute_workflow_graph_metrics                  *)
(*   backend/main.py       receive_event (cost fill-in on ingestion)       *)
(*                                                                         *)
(* Representation.                                                         *)
(*   Money is an integer number of micro-dollars (1e-6 USD): the pricing   *)
(*   function rounds to 6 decimals, and the scorer's epsilon 0.000001 is   *)
(*   exactly 1.  Rates are milli-dollars per million tokens, so that       *)
(*   rate * tokens is a number of nano-dollars.  Float arithmetic is       *)
(*   modelled exactly (no representation error).                           *)
(*   Confidence is in percent (0.7 is 70).                                 *)
(*   A call identifier is a sequence of character codes: 0..9 are the      *)
(*   digits, codes from 10 are letters and punctuation.                    *)
(*   A model name is a sequence of tokens: vendor prefixes, one base name  *)
(*   and "-demo" suffixes, e.g. <<"models/", "gpt-4", "-demo">>.           *)
(***************************************************************************)
EXTENDS Integers, Sequences, FiniteSets, TLC

VARIABLES
    events,     \* scorer input: the chronologically ordered call list
    analysis,   \* scorer input: the findings by category
    result,     \* what calculate_efficiency_score returned, or NotRun
    call_id,    \* resolver input: the reference to resolve
    matched,    \* what match_call_id_to_event returned, or NotRun
    g_calls,    \* graph engine input: rows of the events table
    g_edges,    \* graph engine input: rows of the call_edges table
    g_out,      \* what compute_workflow_graph_metrics did, or NotRun
    cost_args,  \* pricing input: [model, prompt_tokens, completion_tokens]
    cost_out,   \* what calculate_cost returned, or NotRun
    db,         \* the store: events, call_edges, the workflow's row
    reqs,       \* receive_event, per posted call: position and locals
    tasks,      \* the deferred graph computations: position and locals
    clock,      \* requests that have arrived (orders created_at)
    handler,    \* the SDK handler: _pending_starts, _response_cache
    cbs,        \* the callbacks of each call: position and locals
    wire,       \* posts that timed out at the SDK and may still arrive
    strays,     \* end callbacks that found no start: the kinds seen
    det_args,   \* relationship detector input: [records, prompt]
    det_out     \* what _detect_parents returned, or NotRun

score_vars == <<events, analysis, result>>

match_vars == <<call_id, matched>>

graph_vars == <<g_calls, g_edges, g_out>>

cost_vars == <<cost_args, cost_out>>

backend_vars == <<db, reqs, tasks, clock>>

sdk_vars == <<handler, cbs, wire, strays>>

detect_vars == <<det_args, det_out>>

vars ==
    <<score_vars, match_vars, graph_vars, cost_vars, backend_vars, sdk_vars,
      detect_vars>>

-----------------------------------------------------------------------------
(* Bounds of the model.                                                    *)

MaxCalls == 2       \* calls of a scored workflow

MaxGroup == 2       \* identifiers in one redundancy group

-----------------------------------------------------------------------------
(* Generic helpers.                                                        *)

Max(a, b) == IF a >= b THEN a ELSE b

Min(a, b) == IF a <= b THEN a ELSE b

\* Sequences over S of length lo..hi.
SeqsOf(S, lo, hi) == UNION {[1..n -> S] : n \in lo..hi}

RECURSIVE SumSeq(_)
SumSeq(s) == IF s = <<>> THEN 0 ELSE Head(s) + SumSeq(Tail(s))

\* Python round() of the non-negative rational n/d to an integer
\* (ties go to the even neighbour).
RoundDiv(n, d) ==
    LET q == n \div d
        r == n % d
    IN  IF 2 * r < d THEN q
        ELSE IF 2 * r > d THEN q + 1
        ELSE IF q % 2 = 0 THEN q ELSE q + 1

NotRun == [status |-> "not_run"]

-----------------------------------------------------------------------------
(* backend/pricing.py                                                      *)

\* Rates in milli-dollars per million tokens.
MODEL_PRICING ==
    [m \in {"gemini-3-pro", "gemini-3-flash", "gemini-2.5-pro",
            "gemini-2.5-flash", "gemini-2.5-flash-lite", "gemini-2.0-flash",
            "gemini-2.0-flash-lite", "gemini-2.0-flash-exp",
            "gemini-1.5-pro-002", "gpt-5.2", "gpt-5.2-pro", "gpt-5-mini",
            "gpt-4.1", "gpt-4.1-mini", "gpt-4.1-nano", "gpt-4", "gpt-4o",
            "gpt-4o-mini", "claude-opus-4.5", "claude-opus-4.1",
            "claude-opus-4", "claude-sonnet-4.5", "claude-sonnet-4",
            "claude-haiku-4.5", "claude-haiku-3.5", "claude-haiku-3"} |->
      CASE m = "gemini-3-pro"          -> [input |-> 2000,  output |-> 12000]
        [] m = "gemini-3-flash"        -> [input |-> 500,   output |-> 3000]
        [] m = "gemini-2.5-pro"        -> [input |-> 1250,  output |-> 10000]
        [] m = "gemini-2.5-flash"      -> [input |-> 300,   output |-> 2500]
        [] m = "gemini-2.5-flash-lite" -> [input |-> 100,   output |-> 400]
        [] m = "gemini-2.0-flash"      -> [input |-> 100,   output |-> 400]
        [] m = "gemini-2.0-flash-lite" -> [input |-> 75,    output |-> 300]
        [] m = "gemini-2.0-flash-exp"  -> [input |-> 100,   output |-> 400]
        [] m = "gemini-1.5-pro-002"    -> [input |-> 1250,  output |-> 5000]
        [] m = "gpt-5.2"               -> [input |-> 1750,  output |-> 14000]
        [] m = "gpt-5.2-pro"           -> [input |-> 21000, output |-> 168000]
        [] m = "gpt-5-mini"            -> [input |-> 250,   output |-> 2000]
        [] m = "gpt-4.1"               -> [input |-> 3000,  output |-> 12000]
        [] m = "gpt-4.1-mini"          -> [input |-> 800,   output |-> 3200]
        [] m = "gpt-4.1-nano"          -> [input |-> 200,   output |-> 800]
        [] m = "gpt-4"                 -> [input |-> 30000, output |-> 60000]
        [] m = "gpt-4o"                -> [input |-> 5000,  output |-> 15000]
        [] m = "gpt-4o-mini"           -> [input |-> 150,   output |-> 600]
        [] m = "claude-opus-4.5"       -> [input |-> 5000,  output |-> 25000]
        [] m = "claude-opus-4.1"       -> [input |-> 15000, output |-> 75000]
        [] m = "claude-opus-4"         -> [input |-> 15000, output |-> 75000]
        [] m = "claude-sonnet-4.5"     -> [input |-> 3000,  output |-> 15000]
        [] m = "claude-sonnet-4"       -> [input |-> 3000,  output |-> 15000]
        [] m = "claude-haiku-4.5"      -> [input |-> 1000,  output |-> 5000]
        [] m = "claude-haiku-3.5"      -> [input |-> 800,   output |-> 4000]
        [] m = "claude-haiku-3"        -> [input |-> 250,   output |-> 1250]]

\* normalize_model_name: each prefix, in this order, is stripped once if the
\* name starts with it at that point.
StripPrefix(model, prefix) ==
    IF model # <<>> /\ Head(model) = prefix THEN Tail(model) ELSE model

\* The name as it is given, no prefix removed.
NameAsGiven(model) == model

normalize_model_name(model) ==
    StripPrefix(StripPrefix(StripPrefix(model, "models/"), "openai/"),
                "anthropic/")

\* str.replace("-demo", ""): every occurrence goes, not only the suffix.
RECURSIVE RemoveDemo(_)
RemoveDemo(model) ==
    IF model = <<>> THEN <<>>
    ELSE IF Head(model) = "-demo" THEN RemoveDemo(Tail(model))
    ELSE <<Head(model)>> \o RemoveDemo(Tail(model))

\* round(input_cost + output_cost, 6) with the costs unrounded, as
\* calculate_cost would have it if it rounded before it multiplied.
CostRoundedFirst(model, prompt_tokens, completion_tokens) ==
    LET normalized == normalize_model_name(model)
        is_demo    == normalized # <<>> /\ normalized[Len(normalized)] = "-demo"
        name       == IF is_demo THEN RemoveDemo(normalized) ELSE normalized
        known      == Len(name) = 1 /\ name[1] \in DOMAIN MODEL_PRICING
    IN  IF ~known THEN 0
        ELSE RoundDiv(MODEL_PRICING[name[1]].input * prompt_tokens
                      + MODEL_PRICING[name[1]].output * completion_tokens, 1000)
             * (IF is_demo THEN 10000 ELSE 1)

\* An unknown model priced at the rates of gpt-4.
CostDefaultRate(model, prompt_tokens, completion_tokens) ==
    LET normalized == normalize_model_name(model)
        is_demo    == normalized # <<>> /\ normalized[Len(normalized)] = "-demo"
        name       == IF is_demo THEN RemoveDemo(normalized) ELSE normalized
        known      == Len(name) = 1 /\ name[1] \in DOMAIN MODEL_PRICING
        pricing    == MODEL_PRICING[IF known THEN name[1] ELSE "gpt-4"]
    IN  IF is_demo
        THEN (pricing.input * prompt_tokens
              + pricing.output * completion_tokens) * 10
        ELSE RoundDiv(pricing.input * prompt_tokens
                      + pricing.output * completion_tokens, 1000)

\* calculate_cost, in micro-dollars.  The sum of the two costs is a number
\* of nano-dollars times the multiplier; with the multiplier 10000 it is
\* that number times 10 micro-dollars, which round(x, 6) leaves as it is.
\* Where the sum lies exactly half way between two micro-dollars, the float
\* the code rounds lies just above or just below the half; RoundDiv takes
\* the even neighbour and the inputs drawn below avoid such sums.
calculate_cost(model, prompt_tokens, completion_tokens) ==
    LET normalized == normalize_model_name(model)
        is_demo    == normalized # <<>> /\ normalized[Len(normalized)] = "-demo"
        name       == IF is_demo THEN RemoveDemo(normalized) ELSE normalized
        known      == Len(name) = 1 /\ name[1] \in DOMAIN MODEL_PRICING
        multiplier == IF is_demo THEN 10000 ELSE 1
        \* the factor the multiplier shares with the 1000 nano-dollars of a
        \* micro-dollar
        shared     == IF is_demo THEN 1000 ELSE 1
    IN  IF ~known THEN 0
        ELSE LET pricing == MODEL_PRICING[name[1]]
                 nano    == pricing.input * prompt_tokens
                            + pricing.output * completion_tokens
             IN  RoundDiv(nano * (multiplier \div shared), 1000 \div shared)

-----------------------------------------------------------------------------
(* backend/main.py, receive_event: the calls a workflow can hold.          *)

\* receive_event fills in the cost of an event that is posted without one
\* (the SDK posts cost 0.0); a posted non-zero cost is stored as it is.
receive_event_cost(e) ==
    IF e.cost = 0 /\ e.model # <<>>
    THEN calculate_cost(e.model, e.tokens_in, e.tokens_out)
    ELSE e.cost

\* Run identifiers by position in the call list: "a", "b1c", "d9", "2e".
\* UUIDs contain digits, so most real identifiers look like the last three.
RunIdPool == << <<10>>, <<11, 1, 12>>, <<13, 9>>, <<2, 14>> >>

\* What a client posts: model, token counts, and a cost (0 when left to the
\* backend).  The third is a seeded call whose cost is not the table's.
CallProfiles ==
    { [model |-> <<"openai/", "gpt-4">>,     tokens_in |-> 1000,
       tokens_out |-> 1000, cost |-> 0],
      [model |-> <<"gpt-4o-mini", "-demo">>, tokens_in |-> 1000,
       tokens_out |-> 0,    cost |-> 0],
      [model |-> <<"gpt-4o-mini">>,          tokens_in |-> 2000,
       tokens_out |-> 1000, cost |-> 1],
      [model |-> <<"fake-model">>,           tokens_in |-> 0,
       tokens_out |-> 0,    cost |-> 0] }

StoredEvent(i, p) ==
    [run_id     |-> RunIdPool[i],
     model      |-> p.model,
     tokens_in  |-> p.tokens_in,
     tokens_out |-> p.tokens_out,
     cost       |-> receive_event_cost(p)]

\* The stored call lists, in order of created_at (main.py orders the query).
EventLists ==
    UNION { { [i \in 1..n |-> StoredEvent(i, ps[i])] :
              ps \in [1..n -> CallProfiles] } : n \in 0..MaxCalls }

-----------------------------------------------------------------------------
(* backend/scoring.py, match_call_id_to_event                              *)

IsDigit(c) == c \in 0..9

\* None: the finding carries no call identifier.
NoId == <<-1>>

\* The short label main.py gives the k-th call: "call_<k>".
Label(k) == <<12, 10, 21, 21, 36, k>>

\* Index of the first digit of s, or 0.
FirstDigitAt(s) ==
    IF \E i \in 1..Len(s) : IsDigit(s[i])
    THEN CHOOSE i \in 1..Len(s) :
            IsDigit(s[i]) /\ \A j \in 1..(i - 1) : ~IsDigit(s[j])
    ELSE 0

\* Value of the maximal digit run of s that starts at position i, having
\* read acc so far.
RECURSIVE DigitRun(_, _, _)
DigitRun(s, i, acc) ==
    IF i <= Len(s) /\ IsDigit(s[i])
    THEN DigitRun(s, i + 1, 10 * acc + s[i])
    ELSE acc

\* Index of the first event whose run_id equals call_id, or 0.
ExactMatch(cid, evs) ==
    IF \E i \in 1..Len(evs) : evs[i].run_id = cid
    THEN CHOOSE i \in 1..Len(evs) :
            evs[i].run_id = cid /\ \A j \in 1..(i - 1) : evs[j].run_id # cid
    ELSE 0

\* re.search(r'(\d+)', call_id): the first run of digits anywhere in the
\* reference, used as a 1-based index when it is in range.
RegexIndex(cid) ==
    IF FirstDigitAt(cid) = 0 THEN 0 ELSE DigitRun(cid, FirstDigitAt(cid), 0)

\* Position in evs of the event returned, 0 for None, -1 when re.search
\* raises TypeError on a None reference.
match_call_id_to_event(cid, evs) ==
    IF cid = NoId THEN -1
    ELSE IF RegexIndex(cid) \in 1..Len(evs) THEN RegexIndex(cid)
    ELSE ExactMatch(cid, evs)

-----------------------------------------------------------------------------
(* backend/scoring.py, calculate_efficiency_score (the cost-based one)     *)

\* filter_findings' default min_confidence, 0.7, in percent.
MinConfidence == 70

\* Only the findings strictly above the threshold.
FilterAbove(findings) ==
    SelectSeq(findings, LAMBDA f : f.confidence > MinConfidence)

filter_findings(findings) ==
    SelectSeq(findings, LAMBDA f : f.confidence >= MinConfidence)

\* Cost of the event a reference resolves to; nothing when it resolves to
\* no event.
MatchedCost(cid, evs) ==
    IF match_call_id_to_event(cid, evs) > 0
    THEN evs[match_call_id_to_event(cid, evs)].cost
    ELSE 0

\* The identifiers a redundancy finding is charged for: its
\* "duplicate_call_ids" when it has any, else all of "call_ids" but the
\* first.
Duplicates(finding) ==
    IF finding.duplicate_call_ids # <<>> THEN finding.duplicate_call_ids
    ELSE IF Len(finding.call_ids) > 1 THEN Tail(finding.call_ids)
    ELSE <<>>

\* group_waste of one redundancy finding.
GroupWaste(finding, evs) ==
    SumSeq([i \in 1..Len(Duplicates(finding)) |->
               MatchedCost(Duplicates(finding)[i], evs)])

\* The difference of the two costs, not held at zero.
OverkillWasteUnclamped(finding, evs) ==
    LET k == match_call_id_to_event(finding.call_id, evs)
    IN  IF k > 0 /\ finding.recommended_model # <<>>
        THEN evs[k].cost - calculate_cost(finding.recommended_model,
                                          evs[k].tokens_in, evs[k].tokens_out)
        ELSE 0

\* item_waste of one model-overkill finding.
OverkillWaste(finding, evs) ==
    LET k == match_call_id_to_event(finding.call_id, evs)
    IN  IF k > 0 /\ finding.recommended_model # <<>>
        THEN Max(0, evs[k].cost
                    - calculate_cost(finding.recommended_model,
                                     evs[k].tokens_in, evs[k].tokens_out))
        ELSE 0

\* The waste taken from the token count the finding reports.
BloatWasteReported(finding, evs) ==
    LET k == match_call_id_to_event(finding.call_id, evs)
    IN  IF k > 0 /\ finding.current_tokens > finding.estimated_necessary_tokens
        THEN calculate_cost(evs[k].model,
                            finding.current_tokens
                              - finding.estimated_necessary_tokens, 0)
        ELSE 0

\* item_waste of one prompt-bloat finding.
BloatWaste(finding, evs) ==
    LET k == match_call_id_to_event(finding.call_id, evs)
    IN  IF k > 0 /\ evs[k].tokens_in > finding.estimated_necessary_tokens
        THEN calculate_cost(evs[k].model,
                            evs[k].tokens_in
                              - finding.estimated_necessary_tokens, 0)
        ELSE 0

\* round(x, 4) of an amount in micro-dollars.
Round4(x) == RoundDiv(x, 100) * 100

\* A reference that makes match_call_id_to_event raise is looked up.
ScoreRaises(an, evs) ==
    \/ \E i \in 1..Len(filter_findings(an.redundancies)) :
          \E j \in 1..Len(Duplicates(filter_findings(an.redundancies)[i])) :
             Duplicates(filter_findings(an.redundancies)[i])[j] = NoId
    \/ \E i \in 1..Len(filter_findings(an.model_overkill)) :
          filter_findings(an.model_overkill)[i].call_id = NoId
    \/ \E i \in 1..Len(filter_findings(an.prompt_bloat)) :
          filter_findings(an.prompt_bloat)[i].call_id = NoId

\* The floor of total_cost and of optimized_cost, 0.000001.
Epsilon == 1

\* The wasted share of the cost in place of the kept share.
WastedShare(optimized_cost, total_cost) ==
    Max(0, Min(100, ((total_cost - optimized_cost) * 100) \div total_cost))

\* The ratio rounded to the nearest integer.
EfficiencyScoreRounded(optimized_cost, total_cost) ==
    Max(0, Min(100, RoundDiv(optimized_cost * 100, total_cost)))

\* score = int((optimized_cost / total_cost) * 100), clamped.
EfficiencyScore(optimized_cost, total_cost) ==
    Max(0, Min(100, (optimized_cost * 100) \div total_cost))

\* The sub-score without its floor.
SubScoreUnfloored(waste, total_cost) ==
    100 - ((waste * 100) \div total_cost)

\* sub-score = max(0, 100 - int((waste / total_cost) * 100)).
SubScore(waste, total_cost) ==
    Max(0, 100 - ((waste * 100) \div total_cost))

TotalWaste(redundancy_waste, overkill_waste, bloat_waste) ==
    redundancy_waste + overkill_waste + bloat_waste

OptimizedCost(total_cost, total_waste) ==
    Max(total_cost - total_waste, Epsilon)

EmptyScore ==
    [status |-> "returned", score |-> 100,
     sub_scores |-> [redundancy |-> 100, model_fit |-> 100,
                     context_efficiency |-> 100],
     group_wastes |-> <<>>, overkill_wastes |-> <<>>, bloat_wastes |-> <<>>,
     redundancy_waste |-> 0, overkill_waste |-> 0, bloat_waste |-> 0,
     total_waste |-> 0, total_cost |-> 0, optimized_cost |-> 0,
     savings_breakdown |-> [redundancy_savings |-> 0, model_fit_savings |-> 0,
                            context_efficiency_savings |-> 0,
                            total_savings |-> 0],
     optimized_score |-> 100,
     optimized_sub_scores |-> [redundancy |-> 100, model_fit |-> 100,
                               context_efficiency |-> 100]]

calculate_efficiency_score(an, evs) ==
    IF evs = <<>> THEN EmptyScore
    ELSE IF ScoreRaises(an, evs) THEN [status |-> "raised"]
    ELSE
    LET sum_cost     == SumSeq([i \in 1..Len(evs) |-> evs[i].cost])
        total_cost   == IF sum_cost = 0 THEN Epsilon ELSE sum_cost
        redundancies == filter_findings(an.redundancies)
        overkill     == filter_findings(an.model_overkill)
        bloat        == filter_findings(an.prompt_bloat)
        group_wastes    == [i \in 1..Len(redundancies) |->
                               GroupWaste(redundancies[i], evs)]
        overkill_wastes == [i \in 1..Len(overkill) |->
                               OverkillWaste(overkill[i], evs)]
        bloat_wastes    == [i \in 1..Len(bloat) |->
                               BloatWaste(bloat[i], evs)]
        redundancy_waste == SumSeq(group_wastes)
        overkill_waste   == SumSeq(overkill_wastes)
        bloat_waste      == SumSeq(bloat_wastes)
        total_waste    == TotalWaste(redundancy_waste, overkill_waste,
                                     bloat_waste)
        optimized_cost == OptimizedCost(total_cost, total_waste)
    IN  [status |-> "returned",
         score  |-> EfficiencyScore(optimized_cost, total_cost),
         sub_scores |->
            [redundancy         |-> SubScore(redundancy_waste, total_cost),
             model_fit          |-> SubScore(overkill_waste, total_cost),
             context_efficiency |-> SubScore(bloat_waste, total_cost)],
         group_wastes     |-> group_wastes,
         overkill_wastes  |-> overkill_wastes,
         bloat_wastes     |-> bloat_wastes,
         redundancy_waste |-> redundancy_waste,
         overkill_waste   |-> overkill_waste,
         bloat_waste      |-> bloat_waste,
         total_waste      |-> total_waste,
         total_cost       |-> total_cost,
         optimized_cost   |-> optimized_cost,
         savings_breakdown |->
            [redundancy_savings         |-> Round4(redundancy_waste),
             model_fit_savings          |-> Round4(overkill_waste),
             context_efficiency_savings |-> Round4(bloat_waste),
             total_savings              |-> Round4(total_waste)],
         optimized_score |-> 100,
         optimized_sub_scores |-> [redundancy |-> 100, model_fit |-> 100,
                                   context_efficiency |-> 100]]

-----------------------------------------------------------------------------
(* backend/scoring.py, compute_workflow_graph_metrics                      *)
(*                                                                         *)
(* A row of the events table is [run_id, latency_ms, cost, created_at,     *)
(* tokens_in, tokens_out]; a row of call_edges is [source_id, target_id,   *)
(* overlap_score], the score in hundredths.  The rows come back in the     *)
(* order of the sequence g_calls; the edges of one source are taken in     *)
(* the order of their targets.                                             *)

NodeIds(calls) == {calls[i].run_id : i \in 1..Len(calls)}

RowOf(calls, rid) == calls[CHOOSE i \in 1..Len(calls) : calls[i].run_id = rid]

\* The set S of integers as an ascending sequence.
RECURSIVE Ascending(_)
Ascending(S) ==
    IF S = {} THEN <<>>
    ELSE LET m == CHOOSE x \in S : \A y \in S : x <= y
         IN  <<m>> \o Ascending(S \ {m})

\* adj[src]: the targets of the edges whose source is a call of the
\* workflow; a target is not checked.
Adj(calls, edges, src) ==
    Ascending({e.target_id : e \in {d \in edges : d.source_id = src}})

outbound_counts(calls, edges, rid) ==
    Cardinality({e \in edges : e.source_id = rid})

\* leaf_nodes sorted by created_at, latest first (the sort is stable), and
\* its head, or 0 for None when there is no leaf.
IntendedOutputEarliest(calls, edges) ==
    LET leaves == {i \in 1..Len(calls) :
                      outbound_counts(calls, edges, calls[i].run_id) = 0}
    IN  IF leaves = {} THEN 0
        ELSE calls[CHOOSE i \in leaves :
                      \A j \in leaves :
                         \/ calls[j].created_at > calls[i].created_at
                         \/ (calls[j].created_at = calls[i].created_at
                             /\ i <= j)].run_id

IntendedOutput(calls, edges) ==
    LET leaves == {i \in 1..Len(calls) :
                      outbound_counts(calls, edges, calls[i].run_id) = 0}
    IN  IF leaves = {} THEN 0
        ELSE calls[CHOOSE i \in leaves :
                      \A j \in leaves :
                         \/ calls[j].created_at < calls[i].created_at
                         \/ (calls[j].created_at = calls[i].created_at
                             /\ i <= j)].run_id

\* rev_adj[tgt]: the sources of the edges into tgt, in the order of adj.
RevAdj(calls, edges, tgt) ==
    Ascending({e.source_id : e \in {d \in edges :
                  d.target_id = tgt /\ d.source_id \in NodeIds(calls)}})

\* The breadth-first walk back from the intended output.
RECURSIVE Backward(_, _, _, _)
Backward(calls, edges, queue, alive) ==
    IF queue = <<>> THEN alive
    ELSE LET fresh == SelectSeq(RevAdj(calls, edges, Head(queue)),
                                LAMBDA p : p \notin alive)
         IN  Backward(calls, edges, Tail(queue) \o fresh,
                      alive \cup {fresh[i] : i \in 1..Len(fresh)})

AliveNodes(calls, edges) ==
    IF IntendedOutput(calls, edges) = 0 THEN {}
    ELSE Backward(calls, edges, <<IntendedOutput(calls, edges)>>,
                  {IntendedOutput(calls, edges)})

\* The edges in the order the relaxation visits them: sources in the order
\* of the rows, the targets of one source in the order of adj.
RelaxOrder(calls, edges) ==
    LET PerSource(i) ==
            LET targets == Adj(calls, edges, calls[i].run_id)
            IN  [j \in 1..Len(targets) |-> <<calls[i].run_id, targets[j]>>]
        RECURSIVE Concat(_)
        Concat(i) == IF i > Len(calls) THEN <<>>
                     ELSE PerSource(i) \o Concat(i + 1)
    IN  Concat(1)

\* One relaxation: dist and parent_map are updated in place.
Relax(calls, st, edge) ==
    LET src == edge[1]
        tgt == edge[2]
        via == st.dist[src] + RowOf(calls, tgt).latency_ms
    IN  IF st.dist[tgt] < via
        THEN [dist   |-> [st.dist EXCEPT ![tgt] = via],
              parent |-> [st.parent EXCEPT ![tgt] = src]]
        ELSE st

RECURSIVE RelaxAll(_, _, _)
RelaxAll(calls, st, order) ==
    IF order = <<>> THEN st
    ELSE RelaxAll(calls, Relax(calls, st, Head(order)), Tail(order))

\* range(len(node_latencies)): one pass per call.
OnePass(n) == Min(n, 1)

NumPasses(n) == n

RECURSIVE Passes(_, _, _, _)
Passes(calls, st, order, k) ==
    IF k = 0 THEN st
    ELSE Passes(calls, RelaxAll(calls, st, order), order, k - 1)

\* dist and parent_map after the passes; parent 0 is None.
CriticalPath(calls, edges) ==
    Passes(calls,
           [dist   |-> [rid \in NodeIds(calls) |-> RowOf(calls, rid).latency_ms],
            parent |-> [rid \in NodeIds(calls) |-> 0]],
           RelaxOrder(calls, edges), NumPasses(Len(calls)))

\* The walk back begun at the call of the last row.
EndNodeLast(calls, dist) == calls[Len(calls)].run_id

\* max(dist, key=dist.get): the first call, in row order, of largest dist.
EndNode(calls, dist) ==
    calls[CHOOSE i \in 1..Len(calls) :
             /\ \A j \in 1..Len(calls) :
                   dist[calls[j].run_id] <= dist[calls[i].run_id]
             /\ \A j \in 1..(i - 1) :
                   dist[calls[j].run_id] < dist[calls[i].run_id]].run_id

\* A walk back that stops at a call it has seen.
RECURSIVE WalkBackOnce(_, _, _)
WalkBackOnce(parent, curr, seen) ==
    IF curr = 0 \/ curr \in seen THEN seen
    ELSE WalkBackOnce(parent, parent[curr], seen \cup {curr})

\* The walk back along parent_map.  It ends at a call without a parent;
\* when it comes back to a call it has seen it never ends, and the result
\* is {0}.
RECURSIVE WalkBack(_, _, _)
WalkBack(parent, curr, seen) ==
    IF curr = 0 THEN seen
    ELSE IF curr \in seen THEN {0}
    ELSE WalkBack(parent, parent[curr], seen \cup {curr})

RECURSIVE SumOver(_, _)
SumOver(S, f) ==
    IF S = {} THEN 0
    ELSE LET x == CHOOSE y \in S : TRUE
         IN  f[x] + SumOver(S \ {x}, f)

\* What one run of the engine does: "no_events" (returns before computing),
\* "error" (an exception is caught, nothing is written), "hang" (the walk
\* back never ends), or "ok" with what it writes.
\* The tag of a call, were "dead" to overwrite "critical".
TagDeadFirst(rid, dead_nodes, critical_nodes) ==
    IF rid \in dead_nodes THEN "dead"
    ELSE IF rid \in critical_nodes THEN "critical"
    ELSE "normal"

\* ntype: "normal", then "dead" for a dead call, then "critical" for a call
\* of the critical path.
ntype(rid, dead_nodes, critical_nodes) ==
    IF rid \in critical_nodes THEN "critical"
    ELSE IF rid \in dead_nodes THEN "dead"
    ELSE "normal"

compute_workflow_graph_metrics(calls, edges) ==
    IF calls = <<>> THEN [status |-> "no_events"]
    ELSE IF \E e \in edges : e.source_id \in NodeIds(calls)
                             /\ e.target_id \notin NodeIds(calls)
    THEN [status |-> "error"]
    ELSE
    LET nodes    == NodeIds(calls)
        alive    == AliveNodes(calls, edges)
        dead     == nodes \ alive
        cp       == CriticalPath(calls, edges)
        end_node == EndNode(calls, cp.dist)
        critical == WalkBack(cp.parent, end_node, {})
        Cost     == [rid \in nodes |-> RowOf(calls, rid).cost]
        Tokens   == [rid \in nodes |-> RowOf(calls, rid).tokens_in
                                        + RowOf(calls, rid).tokens_out]
        Overlap  == [e \in edges |-> e.overlap_score]
        useful   == SumOver({e \in edges : e.target_id \in alive}, Overlap)
    IN  IF critical = {0} THEN [status |-> "hang"]
        ELSE
        [status |-> "ok",
         intended_output |-> IntendedOutput(calls, edges),
         alive_nodes |-> alive,
         dead_nodes  |-> dead,
         dist        |-> cp.dist,
         critical_nodes |-> critical,
         dead_branch_waste     |-> SumOver(dead, Cost),
         critical_path_latency |-> cp.dist[end_node],
         information_efficiency |->
            IF SumOver(nodes, Tokens) > 0
            THEN RoundDiv(100 * useful, Len(calls)) ELSE 0,
         graph_computed |-> TRUE,
         node_type |-> [rid \in nodes |-> ntype(rid, dead, critical)]]

-----------------------------------------------------------------------------
(* The findings an analysis pass can return (prompt.py, OUTPUT FORMAT).    *)

\* More findings an analysis holds when it mixes categories.
MaxFindings == 2

\* Below, at, and above the 0.7 threshold would be 69, 70, 71.
ConfidenceLevels == {69, 70}

\* The labels an analysis of n calls can use; call_<n+1> names no call.
Labels(n) == {Label(k) : k \in 1..(n + 1)}

Members(ids) == {ids[i] : i \in 1..Len(ids)}

\* keep_call_id is absent (NoId) or names a member of the group;
\* duplicate_call_ids is absent (<<>>) or lists the last member.
RedundancyFindings(n) ==
    UNION { { [call_ids |-> ids, keep_call_id |-> kd[1],
               duplicate_call_ids |-> kd[2], confidence |-> c] :
              kd \in ({<<NoId, <<>> >>, <<NoId, <<ids[Len(ids)]>> >>}
                       \cup {<<m, <<>> >> : m \in Members(ids)}),
              c \in ConfidenceLevels } :
            ids \in SeqsOf(Labels(n), 2, MaxGroup) }

\* recommended_model is absent (<<>>), cheaper, pricier, or cheapest.
RecommendedModels ==
    {<<>>, <<"gpt-4o-mini">>, <<"gpt-4">>, <<"gemini-2.0-flash-lite">>}

OverkillFindings(n) ==
    [call_id : Labels(n) \cup {NoId}, current_model : {<<"gpt-4">>},
     recommended_model : RecommendedModels, confidence : ConfidenceLevels]

BloatFindings(n) ==
    [call_id : Labels(n) \cup {NoId}, current_tokens : {500, 2000},
     estimated_necessary_tokens : {0, 600}, confidence : ConfidenceLevels]

\* Findings at the threshold that name calls of the workflow.
Named(n) == {Label(k) : k \in 1..n}

CoreRedundancy(n) ==
    {f \in RedundancyFindings(n) :
        /\ f.confidence = MinConfidence
        /\ \E i, j \in 1..n : i < j /\ f.call_ids = <<Label(i), Label(j)>>
        /\ f.keep_call_id = NoId /\ f.duplicate_call_ids = <<>>}

CoreOverkill(n) ==
    {f \in OverkillFindings(n) :
        /\ f.confidence = MinConfidence /\ f.call_id \in Named(n)
        /\ f.recommended_model = <<"gpt-4o-mini">>}

CoreBloat(n) ==
    {f \in BloatFindings(n) :
        /\ f.confidence = MinConfidence /\ f.call_id \in Named(n)
        /\ f.current_tokens = 2000 /\ f.estimated_necessary_tokens = 600}

EmptyAnalysis ==
    [redundancies |-> <<>>, model_overkill |-> <<>>, prompt_bloat |-> <<>>]

\* One finding of any shape, in one category.
SingleAnalyses(n) ==
    {[EmptyAnalysis EXCEPT !.redundancies = <<f>>] : f \in RedundancyFindings(n)}
    \cup {[EmptyAnalysis EXCEPT !.model_overkill = <<f>>] : f \in OverkillFindings(n)}
    \cup {[EmptyAnalysis EXCEPT !.prompt_bloat = <<f>>] : f \in BloatFindings(n)}

\* Up to MaxFindings core findings, spread over the categories.
MixedAnalyses(n) ==
    UNION { [redundancies   : SeqsOf(CoreRedundancy(n), abc[1], abc[1]),
             model_overkill : SeqsOf(CoreOverkill(n), abc[2], abc[2]),
             prompt_bloat   : SeqsOf(CoreBloat(n), abc[3], abc[3])] :
            abc \in {x \in (0..MaxFindings) \X (0..MaxFindings) \X (0..MaxFindings) :
                        x[1] + x[2] + x[3] <= MaxFindings} }

\* Findings an analysis can hold next to a core finding: one below the
\* threshold, one that names no call of the workflow, one without call
\* identifier.
OddRedundancy(n) ==
    {[f EXCEPT !.confidence = 69] : f \in CoreRedundancy(n)}
    \cup {[call_ids |-> <<Label(1), Label(n + 1)>>, keep_call_id |-> NoId,
           duplicate_call_ids |-> <<>>, confidence |-> MinConfidence]}

OddOverkill(n) ==
    {[f EXCEPT !.confidence = 69] : f \in CoreOverkill(n)}
    \cup {[f EXCEPT !.call_id = c] :
             f \in CoreOverkill(n), c \in {Label(n + 1), NoId}}

OddBloat(n) ==
    {[f EXCEPT !.confidence = 69] : f \in CoreBloat(n)}
    \cup {[f EXCEPT !.call_id = c] :
             f \in CoreBloat(n), c \in {Label(n + 1), NoId}}

\* A core finding and an odd one, in either order, in one category.
InOrders(core, odd) ==
    {<<f, g>> : f \in core, g \in odd} \cup {<<g, f>> : f \in core, g \in odd}

PairAnalyses(n) ==
    {[EmptyAnalysis EXCEPT !.redundancies = fs] :
        fs \in InOrders(CoreRedundancy(n), OddRedundancy(n))}
    \cup {[EmptyAnalysis EXCEPT !.model_overkill = fs] :
        fs \in InOrders(CoreOverkill(n), OddOverkill(n))}
    \cup {[EmptyAnalysis EXCEPT !.prompt_bloat = fs] :
        fs \in InOrders(CoreBloat(n), OddBloat(n))}

Analyses(n) == SingleAnalyses(n) \cup MixedAnalyses(n) \cup PairAnalyses(n)

\* The references the resolver is tried on: labels, run identifiers (of
\* this workflow or not), and no identifier.
References(n) ==
    Labels(n) \cup {RunIdPool[i] : i \in 1..Len(RunIdPool)} \cup {NoId}

-----------------------------------------------------------------------------
(* Specifications.                                                         *)

IdleScore == events = <<>> /\ analysis = EmptyAnalysis /\ result = NotRun

IdleMatch == call_id = NoId /\ matched = NotRun

IdleGraph == g_calls = <<>> /\ g_edges = {} /\ g_out = NotRun

NoArgs == [model |-> <<>>, prompt_tokens |-> 0, completion_tokens |-> 0]

IdleCost == cost_args = NoArgs /\ cost_out = NotRun

IdleBackend == db = <<>> /\ reqs = <<>> /\ tasks = <<>> /\ clock = 0

IdleSdk == handler = <<>> /\ cbs = <<>> /\ wire = {} /\ strays = {}

IdleDetect == det_args = <<>> /\ det_out = NotRun

\* The scorer on every call list and analysis of the bounds.
InitScore ==
    /\ events \in EventLists
    /\ analysis \in Analyses(Len(events))
    /\ result = NotRun
    /\ call_id = NoId /\ matched = NotRun
    /\ IdleGraph
    /\ IdleCost
    /\ IdleBackend
    /\ IdleSdk
    /\ IdleDetect

Score ==
    /\ result = NotRun
    /\ result' = calculate_efficiency_score(analysis, events)
    /\ UNCHANGED <<detect_vars, events, analysis, match_vars, graph_vars, cost_vars, backend_vars, sdk_vars>>

NextScore == Score

SpecScore == InitScore /\ [][NextScore]_vars

\* The resolver on every call list and reference of the bounds.
InitMatch ==
    /\ events \in EventLists
    /\ call_id \in References(Len(events))
    /\ matched = NotRun
    /\ analysis = EmptyAnalysis /\ result = NotRun
    /\ IdleGraph
    /\ IdleCost
    /\ IdleBackend
    /\ IdleSdk
    /\ IdleDetect

Match ==
    /\ matched = NotRun
    /\ matched' = [status |-> IF match_call_id_to_event(call_id, events) = -1
                              THEN "raised" ELSE "returned",
                   index  |-> match_call_id_to_event(call_id, events)]
    /\ UNCHANGED <<detect_vars, score_vars, call_id, graph_vars, cost_vars, backend_vars, sdk_vars>>

NextMatch == Match

SpecMatch == InitMatch /\ [][NextMatch]_vars

\* The model names and token counts calculate_cost is tried on: a name is
\* a front part (vendor prefixes, in and out of the order in which they are
\* removed, an unknown vendor, a leading "-demo"), a base name (every model
\* of the table, an unknown one, none) and an end part.
NameFronts ==
    {<<>>, <<"models/">>, <<"openai/">>, <<"anthropic/">>,
     <<"models/", "openai/">>, <<"openai/", "models/">>, <<"azure/">>,
     <<"-demo">>}

BaseNames ==
    {<<m>> : m \in DOMAIN MODEL_PRICING} \cup {<<"fake-model">>, <<>>}

NameEnds == {<<>>, <<"-demo">>, <<"-demo", "-demo">>, <<"-demo", "-x">>}

PromptTokenCounts == {0, 1, 3, 1000}

CompletionTokenCounts == {0, 1, 1000}

\* The unrounded cost of a model of the table, in nano-dollars.
NanoCost(m, prompt_tokens, completion_tokens) ==
    MODEL_PRICING[m].input * prompt_tokens
    + MODEL_PRICING[m].output * completion_tokens

\* The unrounded cost lies half way between two micro-dollars.
AtHalf(args) ==
    \E i \in 1..Len(args.model) :
       /\ args.model[i] \in DOMAIN MODEL_PRICING
       /\ NanoCost(args.model[i], args.prompt_tokens,
                   args.completion_tokens) % 1000 = 500

InitCost ==
    /\ \E front \in NameFronts, base \in BaseNames, end \in NameEnds :
          cost_args \in [model : {front \o base \o end},
                         prompt_tokens : PromptTokenCounts,
                         completion_tokens : CompletionTokenCounts]
    /\ ~AtHalf(cost_args)
    /\ cost_out = NotRun
    /\ IdleScore
    /\ IdleMatch
    /\ IdleGraph
    /\ IdleBackend
    /\ IdleSdk
    /\ IdleDetect

Price ==
    /\ cost_out = NotRun
    /\ cost_out' = [status |-> "returned",
                    cost   |-> calculate_cost(cost_args.model,
                                              cost_args.prompt_tokens,
                                              cost_args.completion_tokens)]
    /\ UNCHANGED <<detect_vars, score_vars, match_vars, graph_vars, cost_args, backend_vars, sdk_vars>>

NextCost == Price

SpecCost == InitCost /\ [][NextCost]_vars

\* The workflows the graph engine is run on.  Call i of a workflow has run
\* identifier i and cost 2^(i-1) micro-dollars; the latencies and the
\* creation times either rise or fall along the rows.
MaxNodes == 4

MaxEdges == 3

RECURSIVE Pow2(_)
Pow2(k) == IF k = 0 THEN 1 ELSE 2 * Pow2(k - 1)

Orders == {"rising", "falling"}

\* The latencies rise or fall along the rows, or no call has a latency
\* (latency_ms 0, the value the engine takes for a row without one).
LatencyPlans == Orders \cup {"none"}

Along(order, i, n) ==
    CASE order = "rising"  -> i
      [] order = "falling" -> n + 1 - i
      [] order = "none"    -> 0

GraphRows(n, latencies, times) ==
    [i \in 1..n |-> [run_id     |-> i,
                     latency_ms |-> Along(latencies, i, n),
                     cost       |-> Pow2(i - 1),
                     created_at |-> Along(times, i, n),
                     tokens_in  |-> 10,
                     tokens_out |-> 5]]

\* An edge row; the overlap score of an exact match is 1.0.
Edge(s, t) == [source_id |-> s, target_id |-> t, overlap_score |-> 100]

\* The edges a workflow of n calls can have: any call to any call (itself
\* included), and an edge from and to a run that is not in the workflow
\* (run identifier 0).
EdgeCandidates(n) ==
    {Edge(s, t) : s \in 1..n, t \in 1..n} \cup {Edge(0, 1), Edge(1, 0)}

EdgeSets(n) ==
    {{}} \cup {{c[i] : i \in 1..MaxEdges} :
                  c \in [1..MaxEdges -> EdgeCandidates(n)]}

InitGraph ==
    /\ \E n \in 0..MaxNodes, latencies \in LatencyPlans, times \in Orders :
          /\ g_calls = GraphRows(n, latencies, times)
          /\ g_edges \in (IF n = 0 THEN {{}} ELSE EdgeSets(n))
    /\ g_out = NotRun
    /\ IdleScore
    /\ IdleMatch
    /\ IdleCost
    /\ IdleBackend
    /\ IdleSdk
    /\ IdleDetect

ComputeGraph ==
    /\ g_out = NotRun
    /\ g_out' = compute_workflow_graph_metrics(g_calls, g_edges)
    /\ UNCHANGED <<detect_vars, score_vars, match_vars, g_calls, g_edges, cost_vars, backend_vars, sdk_vars>>

NextGraph == ComputeGraph

SpecGraph == InitGraph /\ [][NextGraph]_vars

-----------------------------------------------------------------------------
(* backend/main.py, receive_event, and the graph computation it defers.    *)
(*                                                                         *)
(* receive_event is a plain function: the server runs each request on a    *)
(* thread of its pool, and each deferred compute_workflow_graph_metrics    *)
(* after the response of its request.  Every call to the store is one      *)
(* step.  The store returns rows in the order of their insertion.          *)

\* Calls posted to one workflow.
MaxRuns == 2

Runs == 1..MaxRuns

\* What is posted for run r: the SDK posts cost 0.0 and the call's latency.
RunProfiles ==
    << [model |-> <<"openai/", "gpt-4">>, tokens_in |-> 1000, tokens_out |-> 1000],
       [model |-> <<"gpt-4o-mini">>,      tokens_in |-> 2000, tokens_out |-> 1000] >>

Posted(r, parents) ==
    [run_id     |-> r,
     model      |-> RunProfiles[1 + (r % 2)].model,
     tokens_in  |-> RunProfiles[1 + (r % 2)].tokens_in,
     tokens_out |-> RunProfiles[1 + (r % 2)].tokens_out,
     cost       |-> 0,
     latency_ms |-> r,
     parent_relationships |-> parents]

NoRow == [exists |-> FALSE]

NoMetrics == [graph_computed |-> FALSE]

\* The row receive_event inserts for a workflow it does not find.
NewWorkflow ==
    [exists |-> TRUE, total_calls |-> 0, total_cost |-> 0,
     metrics |-> NoMetrics]

EmptyStore ==
    [events |-> <<>>, edges |-> {}, workflow |-> NoRow,
     node_type |-> [r \in Runs |-> "unset"]]

\* The row of the events table for a posted call.
EventRow(post, created_at) ==
    [run_id     |-> post.run_id,
     model      |-> post.model,
     tokens_in  |-> post.tokens_in,
     tokens_out |-> post.tokens_out,
     cost       |-> receive_event_cost(post),
     latency_ms |-> post.latency_ms,
     created_at |-> created_at]

\* The rows of call_edges for a posted call: parent_id -> run_id, whatever
\* the parent_id; the SDK gives an exact match the score 1.0.
EdgeRows(post) == {Edge(parent, post.run_id) : parent \in post.parent_relationships}

\* total_calls and total_cost as receive_event aggregates them.
StatsOf(rows) ==
    [total_calls |-> Len(rows),
     total_cost  |-> SumSeq([i \in 1..Len(rows) |-> rows[i].cost])]

\* What compute_workflow_graph_metrics writes to the workflow's row.
UpdateData(m) ==
    [dead_branch_waste      |-> m.dead_branch_waste,
     critical_path_latency  |-> m.critical_path_latency,
     information_efficiency |-> m.information_efficiency,
     graph_computed         |-> TRUE]

InitBackend ==
    /\ db = EmptyStore
    /\ reqs \in [Runs -> [pc : {"posted"}, created_at : {0},
                          stats : {StatsOf(<<>>)},
                          post : UNION {{Posted(r, ps) : ps \in SUBSET Runs} :
                                           r \in Runs}]]
    /\ \A r \in Runs : /\ reqs[r].post.run_id = r
                       /\ reqs[r].post.parent_relationships \subseteq 1..(r - 1)
    /\ tasks = [r \in Runs |-> [pc |-> "none", events |-> <<>>, edges |-> {},
                                todo |-> <<>>, out |-> NotRun]]
    /\ clock = 0
    /\ IdleScore
    /\ IdleMatch
    /\ IdleGraph
    /\ IdleCost
    /\ IdleSdk
    /\ IdleDetect

\* The request arrives (created_at is set when the body is parsed) and the
\* workflow's row is made sure of.
EnsureWorkflow(r) ==
    /\ reqs[r].pc = "posted"
    /\ clock' = clock + 1
    /\ reqs' = [reqs EXCEPT ![r].pc = "insert", ![r].created_at = clock + 1]
    /\ db' = [db EXCEPT !.workflow = IF db.workflow.exists THEN db.workflow
                                     ELSE NewWorkflow]
    /\ UNCHANGED <<detect_vars, tasks, score_vars, match_vars, graph_vars, cost_vars, sdk_vars>>

\* table("events").insert: run_id is the primary key.
InsertEvent(r) ==
    /\ reqs[r].pc = "insert"
    /\ IF \E i \in 1..Len(db.events) : db.events[i].run_id = reqs[r].post.run_id
       THEN /\ reqs' = [reqs EXCEPT ![r].pc = "failed"]
            /\ db' = db
       ELSE /\ reqs' = [reqs EXCEPT ![r].pc = "edges"]
            /\ db' = [db EXCEPT !.events =
                         Append(@, EventRow(reqs[r].post, reqs[r].created_at))]
    /\ UNCHANGED <<detect_vars, tasks, clock, score_vars, match_vars, graph_vars, cost_vars, sdk_vars>>

\* table("call_edges").insert, when there are parent relationships.
InsertEdges(r) ==
    /\ reqs[r].pc = "edges"
    /\ reqs' = [reqs EXCEPT ![r].pc = "select"]
    /\ db' = [db EXCEPT !.edges = @ \cup EdgeRows(reqs[r].post)]
    /\ UNCHANGED <<detect_vars, tasks, clock, score_vars, match_vars, graph_vars, cost_vars, sdk_vars>>

\* table("events").select("cost, created_at") and the totals of its rows.
SelectStats(r) ==
    /\ reqs[r].pc = "select"
    /\ reqs' = [reqs EXCEPT ![r].pc = "update", ![r].stats = StatsOf(db.events)]
    /\ UNCHANGED <<detect_vars, db, tasks, clock, score_vars, match_vars, graph_vars, cost_vars, sdk_vars>>

\* table("workflows").update with the totals, add_task, and the response.
UpdateStats(r) ==
    /\ reqs[r].pc = "update"
    /\ reqs' = [reqs EXCEPT ![r].pc = "done"]
    /\ db' = [db EXCEPT !.workflow.total_calls = reqs[r].stats.total_calls,
                        !.workflow.total_cost  = reqs[r].stats.total_cost]
    /\ tasks' = [tasks EXCEPT ![r].pc = "events"]
    /\ UNCHANGED <<detect_vars, clock, score_vars, match_vars, graph_vars, cost_vars, sdk_vars>>

\* The deferred computation reads the events of the workflow ...
TaskReadEvents(r) ==
    /\ tasks[r].pc = "events"
    /\ tasks' = [tasks EXCEPT ![r].pc = "edges", ![r].events = db.events]
    /\ UNCHANGED <<detect_vars, db, reqs, clock, score_vars, match_vars, graph_vars, cost_vars, sdk_vars>>

\* ... then its edges, and computes; it goes on to write when the
\* computation has a result, ends when an exception was caught or there was
\* no event, and never ends when the walk along parent_map loops.
TaskReadEdges(r) ==
    /\ tasks[r].pc = "edges"
    /\ LET out == compute_workflow_graph_metrics(tasks[r].events, db.edges)
       IN  tasks' = [tasks EXCEPT
              ![r].edges = db.edges,
              ![r].out   = out,
              ![r].todo  = [i \in 1..Len(tasks[r].events) |->
                               tasks[r].events[i].run_id],
              ![r].pc    = CASE out.status = "ok"   -> "workflow"
                             [] out.status = "hang" -> "hung"
                             [] OTHER               -> "finished"]
    /\ UNCHANGED <<detect_vars, db, reqs, clock, score_vars, match_vars, graph_vars, cost_vars, sdk_vars>>

\* table("workflows").update(update_data).
TaskWriteWorkflow(r) ==
    /\ tasks[r].pc = "workflow"
    /\ db' = [db EXCEPT !.workflow.metrics = UpdateData(tasks[r].out)]
    /\ tasks' = [tasks EXCEPT ![r].pc = IF tasks[r].todo = <<>> THEN "finished"
                                        ELSE "nodes"]
    /\ UNCHANGED <<detect_vars, reqs, clock, score_vars, match_vars, graph_vars, cost_vars, sdk_vars>>

\* table("events").update({"node_type": ntype}) for the next call.
TaskWriteNode(r) ==
    /\ tasks[r].pc = "nodes"
    /\ LET rid == Head(tasks[r].todo)
       IN  db' = [db EXCEPT !.node_type[rid] = tasks[r].out.node_type[rid]]
    /\ tasks' = [tasks EXCEPT ![r].todo = Tail(@),
                              ![r].pc = IF Len(tasks[r].todo) = 1
                                        THEN "finished" ELSE "nodes"]
    /\ UNCHANGED <<detect_vars, reqs, clock, score_vars, match_vars, graph_vars, cost_vars, sdk_vars>>

NextBackend ==
    \E r \in Runs :
       \/ EnsureWorkflow(r)
       \/ InsertEvent(r)
       \/ InsertEdges(r)
       \/ SelectStats(r)
       \/ UpdateStats(r)
       \/ TaskReadEvents(r)
       \/ TaskReadEdges(r)
       \/ TaskWriteWorkflow(r)
       \/ TaskWriteNode(r)

SpecBackend == InitBackend /\ [][NextBackend]_vars

-----------------------------------------------------------------------------
(* sdk/kaizen/callback.py, KaizenCallbackHandler, with the backend behind  *)
(* it.                                                                     *)
(*                                                                         *)
(* One handler serves the calls of one workflow; each call runs its start  *)
(* and end callbacks on its own thread, and a step is what a thread does   *)
(* between two accesses to the handler's dictionaries.  A list object is   *)
(* named by the call whose callback created it.  The response of call r    *)
(* is named r; quotes is the set of earlier responses a prompt contains.   *)
(* The backend serves the posts one at a time.                             *)

\* No entry in _pending_starts.
NoStart == [status |-> "absent"]

\* _pending_starts.get in the place of _pending_starts.pop.
Peeked(pending_starts, r) == pending_starts

\* _pending_starts after pop(run_id, None).
Popped(pending_starts, r) == [pending_starts EXCEPT ![r] = NoStart]

\* receive_event as a whole, then the graph computation it deferred.
Recomputed(store) ==
    LET m == compute_workflow_graph_metrics(store.events, store.edges)
    IN  IF m.status = "ok"
        THEN [store EXCEPT
                !.workflow.metrics = UpdateData(m),
                !.node_type = [r \in Runs |->
                                  IF r \in DOMAIN m.node_type
                                  THEN m.node_type[r] ELSE @[r]]]
        ELSE store

receive_event(store, post, now) ==
    LET ensured  == [store EXCEPT !.workflow = IF @.exists THEN @
                                               ELSE NewWorkflow]
        inserted == [ensured EXCEPT !.events = Append(@, EventRow(post, now)),
                                    !.edges  = @ \cup EdgeRows(post)]
        counted  == [inserted EXCEPT
                       !.workflow.total_calls = StatsOf(inserted.events).total_calls,
                       !.workflow.total_cost  = StatsOf(inserted.events).total_cost]
    IN  IF \E i \in 1..Len(store.events) : store.events[i].run_id = post.run_id
        THEN ensured
        ELSE Recomputed(counted)

\* What happens to a post: answered, refused or unreachable, or not
\* answered within the timeout.
Outcomes == {"delivered", "failed", "timed_out"}

\* The records of the workflow in _response_cache (none without the key).
CacheRecords ==
    IF handler.response_cache = {} THEN <<>>
    ELSE handler.lists[CHOOSE l \in handler.response_cache : TRUE]

\* Every quoted response taken for a parent, cached or not.
QuotedAll(quoted) == quoted

\* _detect_parents, for a prompt that contains the responses in quoted.
detect_parents(quoted) ==
    {CacheRecords[i].run_id : i \in {j \in 1..Len(CacheRecords) :
                                        CacheRecords[j].run_id \in quoted}}

InitSdk ==
    /\ handler = [pending_starts |-> [r \in Runs |-> NoStart],
                  response_cache |-> {},
                  lists          |-> [r \in Runs |-> <<>>]]
    /\ cbs \in [Runs -> [pc : {"new"}, quotes : SUBSET Runs,
                         start_data : {NoStart}, list : {{}},
                         sends : {0}]]
    /\ \A r \in Runs : cbs[r].quotes \in {{}, 1..(r - 1)}
    /\ wire = {}
    /\ strays = {}
    /\ db = EmptyStore
    /\ reqs = <<>>
    /\ tasks = <<>>
    /\ clock = 0
    /\ IdleScore
    /\ IdleMatch
    /\ IdleGraph
    /\ IdleCost
    /\ IdleDetect

on_chat_model_start(r) ==
    /\ cbs[r].pc = "new"
    /\ handler' = [handler EXCEPT !.pending_starts[r] =
                      [status |-> "pending", run_id |-> r,
                       parent_relationships |-> detect_parents(cbs[r].quotes)]]
    /\ cbs' = [cbs EXCEPT ![r].pc = "running"]
    /\ UNCHANGED <<detect_vars, strays, wire, backend_vars, score_vars, match_vars, graph_vars, cost_vars>>

\* on_chat_model_end, entered on the call's thread whenever the thread is
\* in no other callback (on_llm_end hands over to it, so an end can fire
\* again, and one can fire for a call that had no start):
\* _pending_starts.pop(run_id, None), and the return when there was no
\* entry.
EndPop(r) ==
    /\ cbs[r].pc \in {"new", "running", "done"}
    /\ handler' = [handler EXCEPT
                     !.pending_starts = Popped(handler.pending_starts, r)]
    /\ IF handler.pending_starts[r] = NoStart
       THEN /\ cbs' = cbs
            /\ strays' = strays \cup {IF cbs[r].pc = "new" THEN "no_start"
                                                            ELSE "ended"}
       ELSE /\ cbs' = [cbs EXCEPT ![r].start_data = handler.pending_starts[r],
                                  ![r].pc = "send"]
            /\ strays' = strays
    /\ UNCHANGED <<detect_vars, wire, backend_vars, score_vars, match_vars, graph_vars, cost_vars>>

\* _send_event: the outcome is printed, and the callback goes on.
SendEvent(r) ==
    /\ cbs[r].pc = "send"
    /\ cbs' = [cbs EXCEPT ![r].pc = "check", ![r].sends = @ + 1]
    /\ LET event_data == Posted(r, cbs[r].start_data.parent_relationships)
       IN  \E outcome \in Outcomes :
              /\ db' = IF outcome = "delivered"
                       THEN receive_event(db, event_data, clock + 1) ELSE db
              /\ clock' = IF outcome = "delivered" THEN clock + 1 ELSE clock
              /\ wire' = IF outcome = "timed_out"
                         THEN wire \cup {event_data} ELSE wire
    /\ UNCHANGED <<detect_vars, strays, handler, reqs, tasks, score_vars, match_vars, graph_vars, cost_vars>>

\* The thread of a post that timed out is still alive: the post may arrive.
Arrive ==
    \E post \in wire :
       /\ wire' = wire \ {post}
       /\ db' = receive_event(db, post, clock + 1)
       /\ clock' = clock + 1
       /\ UNCHANGED <<detect_vars, strays, handler, cbs, reqs, tasks, score_vars, match_vars, graph_vars, cost_vars>>

\* if workflow_id not in self._response_cache
CheckKey(r) ==
    /\ cbs[r].pc = "check"
    /\ cbs' = [cbs EXCEPT ![r].pc = IF handler.response_cache = {}
                                    THEN "make" ELSE "fetch"]
    /\ UNCHANGED <<detect_vars, strays, handler, wire, backend_vars, score_vars, match_vars, graph_vars, cost_vars>>

\* self._response_cache[workflow_id] = []
MakeList(r) ==
    /\ cbs[r].pc = "make"
    /\ handler' = [handler EXCEPT !.response_cache = {r}, !.lists[r] = <<>>]
    /\ cbs' = [cbs EXCEPT ![r].pc = "fetch"]
    /\ UNCHANGED <<detect_vars, strays, wire, backend_vars, score_vars, match_vars, graph_vars, cost_vars>>

\* self._response_cache[workflow_id] ...
FetchList(r) ==
    /\ cbs[r].pc = "fetch"
    /\ cbs' = [cbs EXCEPT ![r].list = handler.response_cache,
                          ![r].pc = "append"]
    /\ UNCHANGED <<detect_vars, strays, handler, wire, backend_vars, score_vars, match_vars, graph_vars, cost_vars>>

\* ... .append({"run_id": ..., "response": ...})
AppendRecord(r) ==
    /\ cbs[r].pc = "append"
    /\ handler' = [handler EXCEPT
                     !.lists = [l \in Runs |->
                                   IF l \in cbs[r].list
                                   THEN Append(@[l], [run_id |-> r, response |-> r])
                                   ELSE @[l]]]
    /\ cbs' = [cbs EXCEPT ![r].pc = "done"]
    /\ UNCHANGED <<detect_vars, strays, wire, backend_vars, score_vars, match_vars, graph_vars, cost_vars>>

NextSdk ==
    \/ \E r \in Runs :
          \/ on_chat_model_start(r)
          \/ EndPop(r)
          \/ SendEvent(r)
          \/ CheckKey(r)
          \/ MakeList(r)
          \/ FetchList(r)
          \/ AppendRecord(r)
    \/ Arrive

SpecSdk == InitSdk /\ [][NextSdk]_vars

-----------------------------------------------------------------------------
(* sdk/kaizen/callback.py, _detect_parents, on texts.                      *)
(*                                                                         *)
(* A text is a sequence of character codes; an upper-case letter is the    *)
(* negative of its lower-case letter, and 0 is a character without case.   *)

\* Characters of a chunk, and the length a response must exceed to be
\* compared by chunks.
ChunkSize == 50

LongResponse == 100

\* The least score that is emitted, in percent (0.1).
MinScore == 10

\* str.lower(); the mutant compares the texts as they are typed.
AsTyped(text) == text

lower(text) == [i \in 1..Len(text) |-> IF text[i] < 0 THEN -text[i] ELSE text[i]]

\* part in text
Contains(text, part) ==
    \E i \in 0..(Len(text) - Len(part)) :
       \A j \in 1..Len(part) : text[i + j] = part[j]

\* range(0, len(response_text) - 50, 50)
ChunkStarts(n) == {i \in 0..n : i % ChunkSize = 0 /\ i < n - ChunkSize}

\* response_text[i:i+50] in prompt_norm
ChunkIn(response_text, i, prompt_norm) ==
    \E k \in 0..(Len(prompt_norm) - ChunkSize) :
       \A j \in 1..ChunkSize : prompt_norm[k + j] = response_text[i + j]

\* The score of one cached record against the prompt, as the fraction
\* matches / chunks (1 / 1 for an exact match, 0 / 1 for none).
Overlap(response, prompt_norm) ==
    LET response_text == lower(response)
        starts  == ChunkStarts(Len(response_text))
        matches == Cardinality({i \in starts :
                                   ChunkIn(response_text, i, prompt_norm)})
    IN  IF Contains(prompt_norm, response_text)
        THEN [matches |-> 1, chunks |-> 1, type |-> "exact"]
        ELSE IF Len(response_text) > LongResponse /\ matches > 1
        THEN [matches |-> matches, chunks |-> Cardinality(starts),
              type |-> "partial"]
        ELSE [matches |-> 0, chunks |-> 1, type |-> "none"]

\* The parents found among records[1..k], in the order of the cache; the
\* score is rounded to 2 decimals and kept in hundredths.
ParentsAmong(records, prompt_norm, k) ==
    LET Upto[n \in 0..k] ==
           IF n = 0 THEN <<>>
           ELSE LET record == records[n]
                    found  == Overlap(record.response, prompt_norm)
                IN  IF /\ record.response # <<>>
                       /\ 100 * found.matches >= MinScore * found.chunks
                    THEN Append(Upto[n - 1],
                                [parent_id |-> record.run_id,
                                 score |-> RoundDiv(100 * found.matches,
                                                    found.chunks),
                                 type  |-> found.type])
                    ELSE Upto[n - 1]
    IN  Upto[k]

\* _detect_parents(workflow_id, prompt), records being the workflow's list
\* in _response_cache (empty when the key is not there).
detect_parents_in(records, prompt) ==
    IF prompt = <<>> \/ records = <<>> THEN <<>>
    ELSE ParentsAmong(records, lower(prompt), Len(records))

\* Short texts: every text of up to MaxText characters over a letter in
\* both cases and a second letter.
MaxText == 2

ShortTexts == SeqsOf({1, -1, 2}, 0, MaxText)

\* Long texts are made of blocks of ChunkSize equal letters: block k is
\* the letter k + 2.  A response is its first n blocks and a tail.
MaxBlocks == 3

Block(k) == [j \in 1..ChunkSize |-> k + 2]

RECURSIVE Blocks(_, _, _)
Blocks(from, to, separated) ==
    IF from > to THEN <<>>
    ELSE Block(from) \o (IF separated THEN <<0>> ELSE <<>>)
         \o Blocks(from + 1, to, separated)

TailOf(t) == [j \in 1..t |-> 1]

\* The blocks picked out of 1..n, each followed by a character that is in
\* no block when separated.
RECURSIVE Picked(_, _, _, _)
Picked(S, from, to, separated) ==
    IF from > to THEN <<>>
    ELSE (IF from \in S
          THEN Block(from) \o (IF separated THEN <<0>> ELSE <<>>)
          ELSE <<>>)
         \o Picked(S, from + 1, to, separated)

\* The block counts of the long responses: few blocks, and as many as it
\* takes for two matching chunks to fall below MinScore.
BlockCounts == (2..MaxBlocks) \cup {2 * (100 \div MinScore) + 1}

\* The blocks a prompt may pick of a response of n blocks.
PickSets(n) ==
    IF n <= MaxBlocks THEN SUBSET (1..n) ELSE {1..m : m \in 0..MaxBlocks}

TailLengths == {0, 1, 20}

ShortInputs ==
    {[records |-> [i \in 1..Len(rs) |-> [run_id |-> i, response |-> rs[i]]],
      prompt  |-> p] :
        rs \in SeqsOf(ShortTexts, 0, 2), p \in ShortTexts}

LongInputs ==
    UNION {{[records |-> <<[run_id |-> 1,
                            response |-> Blocks(1, n, FALSE) \o TailOf(t)]>>,
             prompt  |-> Picked(S, 1, n, separated)] :
               S \in PickSets(n), t \in TailLengths, separated \in BOOLEAN} :
           n \in BlockCounts}

InitDetect ==
    /\ det_args \in ShortInputs \cup LongInputs
    /\ det_out = NotRun
    /\ IdleScore
    /\ IdleMatch
    /\ IdleGraph
    /\ IdleCost
    /\ IdleBackend
    /\ IdleSdk

Detect ==
    /\ det_out = NotRun
    /\ det_out' = [status  |-> "returned",
                   parents |-> detect_parents_in(det_args.records,
                                                 det_args.prompt)]
    /\ UNCHANGED <<score_vars, match_vars, graph_vars, cost_vars, backend_vars,
                   sdk_vars, det_args>>

NextDetect == Detect

SpecDetect == InitDetect /\ [][NextDetect]_vars

-----------------------------------------------------------------------------
(* Properties of the scorer.                                               *)

Returned == result # NotRun /\ result.status = "returned"

\* The scorer ran to its end on a workflow that has calls.
Scored == Returned /\ events # <<>>

\* Every single-call finding names a call identifier.
StatedIds ==
    /\ \A i \in 1..Len(analysis.model_overkill) :
          analysis.model_overkill[i].call_id # NoId
    /\ \A i \in 1..Len(analysis.prompt_bloat) :
          analysis.prompt_bloat[i].call_id # NoId

\* The findings of a list that are scored, in order.
ScoredOf(findings) == SelectSeq(findings, LAMBDA f : f.confidence >= 70)

\* The call a label names: k for "call_<k>" when the workflow has a k-th
\* call, else 0.
CallOf(cid) ==
    IF \E k \in 1..Len(events) : cid = Label(k)
    THEN CHOOSE k \in 1..Len(events) : cid = Label(k)
    ELSE 0

RECURSIVE CostOfCalls(_)
CostOfCalls(ks) ==
    IF ks = {} THEN 0
    ELSE LET k == CHOOSE x \in ks : TRUE
         IN  events[k].cost + CostOfCalls(ks \ {k})

SumCosts == SumSeq([i \in 1..Len(events) |-> events[i].cost])

FlooredTotal == IF SumCosts = 0 THEN Epsilon ELSE SumCosts

SumOfWastes ==
    result.redundancy_waste + result.overkill_waste + result.bloat_waste

Clamp(x) == Max(0, Min(100, x))

InRange(x) == x \in 0..100

KeptId(f) == IF f.keep_call_id # NoId THEN f.keep_call_id ELSE f.call_ids[1]

\* The calls of the workflow a group names.
GroupCalls(f) == {CallOf(id) : id \in Members(f.call_ids)} \ {0}

\* C5: a scored redundancy group is charged the costs of its calls other
\* than the kept one, each once, and never the kept call.
C5_GroupWasteAllButKept ==
    Scored =>
        \A i \in 1..Len(ScoredOf(analysis.redundancies)) :
            LET f == ScoredOf(analysis.redundancies)[i]
            IN  (/\ f.duplicate_call_ids = <<>>
                 /\ Members(f.call_ids) \subseteq Named(Len(events))) =>
                    result.group_wastes[i]
                      = CostOfCalls(GroupCalls(f) \ {CallOf(KeptId(f))})

\* C6: of a group of distinct identifiers, the call left out of the waste
\* is the one marked "keep", and the first one only when none is marked.
C6_KeepIsExcluded ==
    Scored =>
        \A i \in 1..Len(ScoredOf(analysis.redundancies)) :
            LET f == ScoredOf(analysis.redundancies)[i]
            IN  (/\ f.duplicate_call_ids = <<>>
                 /\ Members(f.call_ids) \subseteq Named(Len(events))
                 /\ Cardinality(Members(f.call_ids)) = Len(f.call_ids)) =>
                    result.group_wastes[i]
                      = SumSeq([j \in 1..Len(f.call_ids) |->
                                  IF f.call_ids[j] = KeptId(f) THEN 0
                                  ELSE events[CallOf(f.call_ids[j])].cost])

C9_WasteFromReportedTokens ==
    Scored =>
        \A i \in 1..Len(ScoredOf(analysis.prompt_bloat)) :
            LET f == ScoredOf(analysis.prompt_bloat)[i]
                k == CallOf(f.call_id)
            IN  k > 0 =>
                    result.bloat_wastes[i]
                      = IF f.current_tokens > f.estimated_necessary_tokens
                        THEN calculate_cost(events[k].model,
                                f.current_tokens
                                  - f.estimated_necessary_tokens, 0)
                        ELSE 0

\* C9 amended: the bloat waste of a resolved finding is the input-only cost
\* of the call's recorded input tokens in excess of the finding's estimate,
\* and 0 when the recorded input tokens do not exceed the estimate.
C9_WasteFromRecordedTokens ==
    Scored =>
        \A i \in 1..Len(ScoredOf(analysis.prompt_bloat)) :
            LET f == ScoredOf(analysis.prompt_bloat)[i]
                k == CallOf(f.call_id)
            IN  k > 0 =>
                    result.bloat_wastes[i]
                      = IF events[k].tokens_in > f.estimated_necessary_tokens
                        THEN calculate_cost(events[k].model,
                                events[k].tokens_in
                                  - f.estimated_necessary_tokens, 0)
                        ELSE 0

\* A resolved finding on a call that also produced output tokens is charged
\* for its excess input tokens only.
C9_Witness ==
    /\ Scored
    /\ \E i \in 1..Len(ScoredOf(analysis.prompt_bloat)) :
          LET f == ScoredOf(analysis.prompt_bloat)[i]
              k == CallOf(f.call_id)
          IN  /\ k > 0
              /\ events[k].tokens_in > f.estimated_necessary_tokens
              /\ events[k].tokens_out > 0
              /\ result.bloat_wastes[i] > 0

-----------------------------------------------------------------------------
(* Properties of the resolver.                                             *)

\* C7: a reference that is a call's real identifier resolves to that call,
\* and the label call_<k> resolves to the k-th call.
C7_ResolvesBothForms ==
    (matched # NotRun /\ call_id # NoId) =>
        /\ \A i \in 1..Len(events) :
              events[i].run_id = call_id => matched.index = i
        /\ \A k \in 1..Len(events) :
              call_id = Label(k) => matched.index = k

\* The findings of a list that are not below the threshold.
NotBelow(findings) ==
    SelectSeq(findings, LAMBDA f : ~(f.confidence < 70))

WithoutLow(an) ==
    [redundancies   |-> NotBelow(an.redundancies),
     model_overkill |-> NotBelow(an.model_overkill),
     prompt_bloat   |-> NotBelow(an.prompt_bloat)]

HasLow(findings) == \E i \in 1..Len(findings) : findings[i].confidence < 70

Resolves(cid) == cid # NoId /\ CallOf(cid) > 0

WithoutUnresolved(an) ==
    [redundancies   |-> an.redundancies,
     model_overkill |-> SelectSeq(an.model_overkill,
                                  LAMBDA f : Resolves(f.call_id)),
     prompt_bloat   |-> SelectSeq(an.prompt_bloat,
                                  LAMBDA f : Resolves(f.call_id))]

\* C12: the scorer returns on every input, and its score and waste figures
\* are those it has with the overkill and bloat findings whose reference
\* names no call (or that carry no reference) removed.
C12_UnresolvedSkipped ==
    result # NotRun =>
        /\ result.status = "returned"
        /\ events # <<>> =>
            LET other == calculate_efficiency_score(
                            WithoutUnresolved(WithoutLow(analysis)), events)
            IN  /\ result.score = other.score
                /\ result.sub_scores = other.sub_scores
                /\ result.total_waste = other.total_waste

\* The part of C12 that the code keeps: a finding whose reference is stated
\* and names no call is charged nothing and leaves the other findings as
\* they are.
C12_StatedUnresolvedSkipped ==
    (result # NotRun /\ StatedIds) =>
        /\ result.status = "returned"
        /\ events # <<>> =>
            LET other == calculate_efficiency_score(
                            WithoutUnresolved(WithoutLow(analysis)), events)
            IN  /\ result.score = other.score
                /\ result.sub_scores = other.sub_scores
                /\ result.total_waste = other.total_waste

-----------------------------------------------------------------------------
(* Properties of the pricing function.                                     *)

Priced == cost_out # NotRun /\ cost_out.status = "returned"

Abs(x) == IF x < 0 THEN -x ELSE x

\* The model is m with the suffix "-demo", m a model of the table.
IsDemoOf(m) == m \in DOMAIN MODEL_PRICING /\ cost_args.model = <<m, "-demo">>

\* C13 as stated: the cost of m-demo is 10000 times the rounded cost of m.
C13_DemoIsTenThousandfold ==
    \A m \in DOMAIN MODEL_PRICING :
       (Priced /\ IsDemoOf(m)) =>
           cost_out.cost = 10000 * calculate_cost(<<m>>, cost_args.prompt_tokens,
                                                  cost_args.completion_tokens)

\* C13: the cost of m-demo is 10000 times the unrounded cost of m (it is
\* rounded after the multiplication); it is 10000 times the rounded cost of
\* m when the unrounded cost of m is a whole number of micro-dollars, and
\* within 0.005 dollars of it otherwise.
C13_DemoMultipliesUnrounded ==
    \A m \in DOMAIN MODEL_PRICING :
       (Priced /\ IsDemoOf(m)) =>
           LET nano == NanoCost(m, cost_args.prompt_tokens,
                                cost_args.completion_tokens)
               base == calculate_cost(<<m>>, cost_args.prompt_tokens,
                                      cost_args.completion_tokens)
           IN  /\ cost_out.cost = 10 * nano
               /\ Abs(cost_out.cost - 10000 * base) <= 5000
               /\ nano % 1000 = 0 => cost_out.cost = 10000 * base

\* One input token of gpt-4o-mini-demo costs 0.0015 dollars, and one of
\* gpt-4o-mini costs nothing.
C13_Witness ==
    /\ Priced
    /\ cost_args = [model |-> <<"gpt-4o-mini", "-demo">>,
                    prompt_tokens |-> 1, completion_tokens |-> 0]
    /\ cost_out.cost = 1500
    /\ calculate_cost(<<"gpt-4o-mini">>, 1, 0) = 0

VendorPrefixes == {<<>>, <<"models/">>, <<"openai/">>, <<"anthropic/">>}

\* C14: for a model of the table, with or without one vendor prefix, the
\* cost is the integer number of micro-dollars nearest to
\* (input_rate * tokens_in + output_rate * tokens_out) / 1e6 dollars, times
\* 10000 and exact for a "-demo" name; gpt-4 with 1000 and 1000 tokens
\* costs 0.09 dollars.
C14_CostFromRates ==
    Priced =>
       /\ \A m \in DOMAIN MODEL_PRICING, pre \in VendorPrefixes :
             LET nano == NanoCost(m, cost_args.prompt_tokens,
                                  cost_args.completion_tokens)
             IN  /\ cost_args.model = pre \o <<m>> =>
                        Abs(1000 * cost_out.cost - nano) < 500
                 /\ cost_args.model = pre \o <<m, "-demo">> =>
                        cost_out.cost = 10 * nano
       /\ cost_args = [model |-> <<"gpt-4">>, prompt_tokens |-> 1000,
                       completion_tokens |-> 1000] => cost_out.cost = 90000

\* A model with a vendor prefix whose cost is rounded: three input tokens
\* and one output token of openai/gpt-4o-mini, 1050 nano-dollars.
C14_Witness ==
    /\ Priced
    /\ cost_args = [model |-> <<"openai/", "gpt-4o-mini">>,
                    prompt_tokens |-> 3, completion_tokens |-> 1]
    /\ cost_out.cost = 1

\* The name the table is looked up with: the vendor prefixes removed, and
\* every "-demo" removed when the name ends with one.
LookedUp(model) ==
    LET n == normalize_model_name(model)
    IN  IF n # <<>> /\ n[Len(n)] = "-demo" THEN RemoveDemo(n) ELSE n

Unknown(model) ==
    ~(Len(LookedUp(model)) = 1 /\ LookedUp(model)[1] \in DOMAIN MODEL_PRICING)

-----------------------------------------------------------------------------
(* Properties of the graph engine.                                         *)

Computed == g_out # NotRun /\ g_out.status = "ok"

\* The (source, target) pairs of the edges between calls of the workflow.
Links == {<<e.source_id, e.target_id>> :
             e \in {d \in g_edges : /\ d.source_id \in NodeIds(g_calls)
                                    /\ d.target_id \in NodeIds(g_calls)}}

\* There is a directed path of at most k edges from a to b.
RECURSIVE PathWithin(_, _, _)
PathWithin(a, b, k) ==
    \/ a = b
    \/ /\ k > 0
       /\ \E l \in Links : l[1] = a /\ PathWithin(l[2], b, k - 1)

Reaches(a, b) == PathWithin(a, b, Len(g_calls))

Acyclic ==
    \A l \in Links : ~Reaches(l[2], l[1])

Leaves == {rid \in NodeIds(g_calls) :
              \A e \in g_edges : e.source_id # rid}

\* The leaf created last.
LatestLeaf ==
    CHOOSE rid \in Leaves :
       \A other \in Leaves \ {rid} :
          RowOf(g_calls, other).created_at < RowOf(g_calls, rid).created_at

Unreachable == {rid \in NodeIds(g_calls) : ~Reaches(rid, LatestLeaf)}

RECURSIVE CostOfRuns(_)
CostOfRuns(S) ==
    IF S = {} THEN 0
    ELSE LET rid == CHOOSE x \in S : TRUE
         IN  RowOf(g_calls, rid).cost + CostOfRuns(S \ {rid})

\* The edges form one chain through all the calls.
LinearChain ==
    /\ Cardinality(Links) = Len(g_calls) - 1
    /\ Acyclic
    /\ \A rid \in NodeIds(g_calls) :
          /\ Cardinality({l \in Links : l[1] = rid}) <= 1
          /\ Cardinality({l \in Links : l[2] = rid}) <= 1

\* C3: when the engine has computed a workflow that has a leaf, the dead
\* calls are exactly the calls from which no directed path leads to the leaf
\* created last, the dead-branch cost is the sum of their costs, and a
\* workflow that is one chain has no dead call and a dead-branch cost of 0.
C3_DeadIsUnreachable ==
    (Computed /\ Leaves # {}) =>
        LET unreachable == Unreachable
        IN  /\ g_out.intended_output = LatestLeaf
            /\ g_out.dead_nodes = unreachable
            /\ g_out.alive_nodes = NodeIds(g_calls) \ unreachable
            /\ g_out.dead_branch_waste = CostOfRuns(unreachable)
            /\ LinearChain => (g_out.dead_nodes = {} /\ g_out.dead_branch_waste = 0)

\* A chain A -> B -> C and a call D without edges created before C: D alone
\* is dead.
C3_Witness ==
    /\ Computed
    /\ Len(g_calls) = 4
    /\ \E a, b, c, d \in NodeIds(g_calls) :
          /\ Links = {<<a, b>>, <<b, c>>}
          /\ Cardinality({a, b, c, d}) = 4
          /\ RowOf(g_calls, d).created_at < RowOf(g_calls, c).created_at
          /\ g_out.dead_nodes = {d}
          /\ g_out.dead_branch_waste = RowOf(g_calls, d).cost

\* The largest sum of latencies along a directed path that ends at rid, in
\* an acyclic workflow.
RECURSIVE LongestTo(_)
LongestTo(rid) ==
    LET before == {LongestTo(l[1]) : l \in {m \in Links : m[2] = rid}}
    IN  RowOf(g_calls, rid).latency_ms
          + (IF before = {} THEN 0
             ELSE CHOOSE x \in before : \A y \in before : y <= x)

LongestPath ==
    LET ends == {LongestTo(rid) : rid \in NodeIds(g_calls)}
    IN  CHOOSE x \in ends : \A y \in ends : y <= x

\* C4: when the engine has computed a workflow whose edges are acyclic, the
\* critical-path latency is the largest sum of call latencies along any
\* directed path, whatever the order of the edges; for a single call of
\* latency L it is L.
C4_CriticalPathIsLongest ==
    (Computed /\ Acyclic) =>
        /\ g_out.critical_path_latency = LongestPath
        /\ Len(g_calls) = 1 => g_out.critical_path_latency = g_calls[1].latency_ms

\* A chain of three calls whose edges run against the order of the rows:
\* the latency of the critical path is the sum of the three.
C4_Witness ==
    /\ Computed
    /\ Acyclic
    /\ {<<3, 2>>, <<2, 1>>} \subseteq Links
    /\ g_out.critical_path_latency
         = g_calls[1].latency_ms + g_calls[2].latency_ms + g_calls[3].latency_ms

\* C16: when the engine has computed a workflow in which no call is a leaf,
\* no call is dead and the dead-branch cost is 0.
C16_NoLeafNoDead ==
    (Computed /\ Leaves = {}) =>
        /\ g_out.dead_nodes = {}
        /\ g_out.dead_branch_waste = 0
        /\ \A rid \in NodeIds(g_calls) : g_out.node_type[rid] # "dead"

\* The edges whose source and target are calls of the workflow.
InScope(edges) ==
    {e \in edges : /\ e.source_id \in NodeIds(g_calls)
                   /\ e.target_id \in NodeIds(g_calls)}

\* C17: on a workflow that has calls the engine does what it does with the
\* edges that leave or enter the call set removed, and it writes a result
\* when it writes one without them.
C17_OutsideEdgesIgnored ==
    (g_out # NotRun /\ g_calls # <<>>) =>
        g_out = compute_workflow_graph_metrics(g_calls, InScope(g_edges))

-----------------------------------------------------------------------------
(* Properties of the backend.                                              *)

\* Every request has been answered and every deferred computation is over.
Settled ==
    /\ reqs # <<>>
    /\ \A r \in Runs : reqs[r].pc = "done" /\ tasks[r].pc = "finished"

\* The metrics of the calls and edges that are recorded.
FullMetrics == compute_workflow_graph_metrics(db.events, db.edges)

\* C18: once every call of the burst is recorded and each of the deferred
\* computations (one per call) is over, the workflow's row carries the
\* aggregates, and every call the tag, of the metrics of the full call set.
C18_RecomputedOnFullSet ==
    (Settled /\ FullMetrics.status = "ok") =>
        /\ db.workflow.metrics = UpdateData(FullMetrics)
        /\ \A r \in Runs : db.node_type[r] = FullMetrics.node_type[r]

-----------------------------------------------------------------------------
(* Properties of the SDK handler.                                          *)

\* No callback is between the first and the last step of on_chat_model_end.
NoEndRunning == \A r \in Runs : cbs[r].pc \in {"new", "running", "done"}

\* The calls whose end callback has completed.
Completed == {r \in Runs : cbs[r].pc = "done"}

RecordsOf(r) == {i \in 1..Len(CacheRecords) : CacheRecords[i].run_id = r}

\* C19: when the end callbacks that were entered have all completed, the
\* workflow's list in the response cache holds one record for each call
\* that completed, and no other record.
C19_CacheHoldsEachCall ==
    NoEndRunning =>
        \A r \in Runs :
           Cardinality(RecordsOf(r)) = IF r \in Completed THEN 1 ELSE 0

\* The calls recorded at the backend.
Recorded == {db.events[i].run_id : i \in 1..Len(db.events)}

\* C20: the source and the target of every recorded edge are recorded calls
\* of the workflow, whatever was delivered, refused or timed out.
C20_EdgesResolve ==
    \A e \in db.edges : e.source_id \in Recorded /\ e.target_id \in Recorded

\* The records of call r that were handed to the network: delivered ones
\* are events of the store, the others are still on the wire or were lost.
Arrived(r) ==
    Cardinality({i \in 1..Len(db.events) : db.events[i].run_id = r})
    + Cardinality({post \in wire : post.run_id = r})

\* C21: the handler attempts at most one send for each call, however many
\* end callbacks fire for it; a call whose start callback has not run has
\* had no send, and no more records of a call are delivered or under way
\* than were sent.
C21_AtMostOneSend ==
    \A r \in Runs :
       /\ cbs[r].sends <= 1
       /\ cbs[r].pc = "new" => cbs[r].sends = 0
       /\ Arrived(r) <= cbs[r].sends

\* An end callback has fired for a call without a start and for a call
\* whose end callback had completed, and a call has been sent.
C21_Witness ==
    /\ strays = {"no_start", "ended"}
    /\ \E r \in Runs : cbs[r].pc = "done" /\ cbs[r].sends = 1

-----------------------------------------------------------------------------
(* Properties of the relationship detector.                                *)

Detected == det_out # NotRun

\* The parents emitted for the cached record of run rid.
EmittedFor(rid) ==
    {det_out.parents[j] : j \in {k \in 1..Len(det_out.parents) :
                                    det_out.parents[k].parent_id = rid}}

\* part occurs in text when upper and lower case are not told apart.
OccursIn(text, part) ==
    \E i \in 0..(Len(text) - Len(part)) :
       \A j \in 1..Len(part) :
          text[i + j] = part[j] \/ text[i + j] = -part[j]

\* C22: an edge of type "exact" is emitted for a cached record exactly when
\* its response is not empty and occurs in the prompt, case aside; its score
\* is 1.0, and there is one such edge per record.
C22_ExactIffContained ==
    Detected =>
        \A i \in 1..Len(det_args.records) :
           LET record == det_args.records[i]
               exact  == {e \in EmittedFor(record.run_id) : e.type = "exact"}
           IN  IF record.response # <<>>
                  /\ OccursIn(det_args.prompt, record.response)
               THEN exact = {[parent_id |-> record.run_id, score |-> 100,
                              type |-> "exact"]}
               ELSE exact = {}

\* An exact edge was emitted for a response that is in the prompt in
\* another case only, next to a record that got none.
C22_Witness ==
    /\ Detected
    /\ \E i \in 1..Len(det_args.records) :
          /\ ~Contains(det_args.prompt, det_args.records[i].response)
          /\ \E e \in EmittedFor(i) : e.type = "exact"
    /\ \E i \in 1..Len(det_args.records) : EmittedFor(i) = {}

\* Where the consecutive chunks of ChunkSize characters of a text of n
\* characters begin (a shorter rest is no chunk).
FullChunks(n) == {i \in 0..n : i % ChunkSize = 0 /\ i + ChunkSize <= n}

\* The chunks of the response that occur in the prompt, case aside.
ChunksFound(response, prompt) ==
    {i \in FullChunks(Len(response)) :
        \E k \in 0..(Len(prompt) - ChunkSize) :
           \A j \in 1..ChunkSize :
              \/ prompt[k + j] = response[i + j]
              \/ prompt[k + j] = -response[i + j]}

\* C23: for a cached response of more than 100 characters that is not
\* wholly in the prompt, a "partial" edge is emitted exactly when more than
\* one of its consecutive 50-character chunks occurs in the prompt and
\* chunks matched / chunks in all is at least 0.1, and its score is that
\* ratio (to 2 decimals); no edge has a score below 0.1 or the type "none".
C23_PartialFromAllChunks ==
    Detected =>
        /\ \A j \in 1..Len(det_out.parents) :
              /\ det_out.parents[j].score >= MinScore
              /\ det_out.parents[j].type # "none"
        /\ \A i \in 1..Len(det_args.records) :
              LET record  == det_args.records[i]
                  n_found == Cardinality(ChunksFound(record.response,
                                                     det_args.prompt))
                  n_chunks   == Cardinality(FullChunks(Len(record.response)))
              IN  (/\ Len(record.response) > LongResponse
                   /\ ~OccursIn(det_args.prompt, record.response)) =>
                      IF n_found > 1 /\ 100 * n_found >= MinScore * n_chunks
                      THEN EmittedFor(record.run_id) =
                              {[parent_id |-> record.run_id,
                                score |-> RoundDiv(100 * n_found, n_chunks),
                                type  |-> "partial"]}
                      ELSE EmittedFor(record.run_id) = {}

-----------------------------------------------------------------------------
(* Properties of the scorer's projection and savings.                      *)

\* C24: the optimized score and the optimized sub-scores are 100 on every
\* input, so the optimized score is never below the current score, and it
\* is above the current score whenever the findings contribute waste.
C24_OptimizedAboveCurrent ==
    Returned =>
        /\ result.optimized_score = 100
        /\ result.optimized_sub_scores =
              [redundancy |-> 100, model_fit |-> 100, context_efficiency |-> 100]
        /\ result.optimized_score >= result.score
        /\ SumOfWastes > 0 => result.optimized_score > result.score

\* C30: the reported total savings (to 4 decimals, as reported) are never
\* more than the total cost of the workflow's calls.
C30_SavingsWithinCost ==
    Scored => result.savings_breakdown.total_savings <= Round4(SumCosts)

-----------------------------------------------------------------------------
(* Properties of the graph engine: tags, termination, the critical path.   *)

Tagged(tag) == {rid \in NodeIds(g_calls) : g_out.node_type[rid] = tag}

OneCycle ==
    /\ g_calls # <<>>
    /\ \A e \in g_edges : e.source_id \in NodeIds(g_calls)
                             => e.target_id \in NodeIds(g_calls)
    /\ \A rid \in NodeIds(g_calls) :
          /\ Cardinality({l \in Links : l[1] = rid}) = 1
          /\ Cardinality({l \in Links : l[2] = rid}) = 1
    /\ \A a, b \in NodeIds(g_calls) : Reaches(a, b)

PositiveLatency == \A i \in 1..Len(g_calls) : g_calls[i].latency_ms > 0

\* C26: on an acyclic edge set the engine comes to an end; when the calls
\* all lie on one directed cycle and have a positive latency, the walk back
\* from the call of largest dist never ends.
C26_EndsUnlessCycle ==
    g_out # NotRun =>
        /\ Acyclic => g_out.status # "hang"
        /\ (OneCycle /\ PositiveLatency) => g_out.status = "hang"

\* The engine never ends on a cycle through three calls.
C26_Witness ==
    /\ g_out # NotRun
    /\ g_out.status = "hang"
    /\ OneCycle
    /\ PositiveLatency
    /\ Len(g_calls) >= 3

\* The calls of P are the calls of one directed path that ends at e.
RECURSIVE IsPathTo(_, _)
IsPathTo(P, e) ==
    /\ e \in P
    /\ \/ P = {e}
       \/ \E u \in P \ {e} : <<u, e>> \in Links /\ IsPathTo(P \ {e}, u)

RECURSIVE LatencyOfRuns(_)
LatencyOfRuns(S) ==
    IF S = {} THEN 0
    ELSE LET rid == CHOOSE x \in S : TRUE
         IN  RowOf(g_calls, rid).latency_ms + LatencyOfRuns(S \ {rid})

\* C27: when the engine has computed a workflow whose edges are acyclic,
\* the calls tagged critical are the calls of one directed path; the path
\* ends at a call whose dist is the largest, and the latencies of its calls
\* sum to the critical-path latency.
C27_CriticalIsOnePath ==
    (Computed /\ Acyclic) =>
        /\ Tagged("critical") = g_out.critical_nodes
        /\ \E e \in g_out.critical_nodes :
              /\ \A rid \in NodeIds(g_calls) : g_out.dist[rid] <= g_out.dist[e]
              /\ IsPathTo(g_out.critical_nodes, e)
        /\ LatencyOfRuns(g_out.critical_nodes) = g_out.critical_path_latency

\* A critical path of three calls or more in a workflow with a call beside
\* it that has edges too.
C27_Witness ==
    /\ Computed
    /\ Acyclic
    /\ Cardinality(g_out.critical_nodes) >= 3
    /\ \E rid \in NodeIds(g_calls) \ g_out.critical_nodes :
          \E l \in Links : rid \in {l[1], l[2]}

-----------------------------------------------------------------------------
(* Properties of the inferred relationships.                               *)

\* The parents inferred for call r by its start callback.
InferredOf(r) ==
    IF handler.pending_starts[r] # NoStart
    THEN handler.pending_starts[r].parent_relationships
    ELSE IF cbs[r].start_data # NoStart
    THEN cbs[r].start_data.parent_relationships
    ELSE {}

Inferred == {<<p, r>> : p \in Runs, r \in Runs} \cap
            {pr \in Runs \X Runs : pr[1] \in InferredOf(pr[2])}

RECURSIVE InferredPath(_, _, _)
InferredPath(a, b, k) ==
    /\ k > 0
    /\ \E pr \in Inferred :
          pr[1] = a /\ (pr[2] = b \/ InferredPath(pr[2], b, k - 1))

\* C28: whenever a start callback runs, the parents it infers are calls
\* whose end callback has completed (so none is the call itself), and the
\* inferred relationships never hold a self-loop or a directed cycle.
C28_ParentsEndedBefore ==
    /\ [][\A r \in Runs :
            (cbs[r].pc = "new" /\ cbs'[r].pc = "running") =>
               handler'.pending_starts[r].parent_relationships
                  \subseteq {p \in Runs \ {r} : cbs[p].pc = "done"}]_vars
    /\ [](\A r \in Runs : ~InferredPath(r, r, MaxRuns))

\* A call has an inferred parent while its own end callback is under way
\* and another start callback has run.
C28_Witness ==
    /\ \E r \in Runs : InferredOf(r) # {} /\ cbs[r].pc = "check"
    /\ \A r \in Runs : cbs[r].pc # "new"

-----------------------------------------------------------------------------
(* Properties of the workflow's totals.                                    *)

\* Every request of the burst has been answered.
Answered == reqs # <<>> /\ \A r \in Runs : reqs[r].pc \in {"done", "failed"}

\* C29: once the concurrent requests have all been answered, total_calls
\* is the number of the workflow's events and total_cost the sum of their
\* costs.
C29_TotalsMatchEvents ==
    Answered =>
        /\ db.workflow.total_calls = Len(db.events)
        /\ db.workflow.total_cost
             = SumSeq([i \in 1..Len(db.events) |-> db.events[i].cost])

=============================================================================
